---- MODULE Spec2Model ----
(***************************************************************************)
(* Model of fetch_uv_daily_smart (src/proyecto-uv.py), the routine that    *)
(* assembles a daily UV-index series from the Open-Meteo archive endpoint  *)
(* and, when the archive is empty or stops short, from the forecast        *)
(* endpoint queried with past_days <= 92.                                  *)
(*                                                                         *)
(* Calendar dates are day numbers (integers); timedelta arithmetic is      *)
(* integer arithmetic.  A DataFrame is a sequence of rows                  *)
(* [date |-> d, uv |-> v].  One behaviour is one invocation: the inputs    *)
(* (today, start, end) are fixed in Init, each upstream response is chosen *)
(* when the corresponding request is made.                                 *)
(*                                                                         *)
(* Payload dates are taken to be parseable ISO dates (pd.to_datetime       *)
(* yields no NaT), so the "else start" arm of line 93 is never taken.  The *)
(* st.cache_data decorator only memoises the call and is left out.         *)
(***************************************************************************)
EXTENDS Integers, Sequences, FiniteSets, TLC

\* ---------------------------------------------------------------- bounds
\* Calendar of the runs against arbitrary upstream payloads: days 0..MaxDay.
MaxDay == 3
\* Longest time/value array of an arbitrary upstream payload.
MaxLen == 2
\* "Today" of the runs against the lagging-archive / lookback-forecast upstream.
WideToday == 200

\* ------------------------------------------------------ program constants
\* Provider ceiling of past_days (min(92, ...), lines 96 and 127).
PastDaysCap == 92
\* forecast_days sent with every forecast request (lines 104 and 135).
ForecastDays == 1

\* UV values an upstream payload may carry; NaN stands for a null or
\* non-numeric entry, which pd.to_numeric(errors="coerce") turns into NaN.
Values == {1, 2}
NaN == 0 - 1
\* Python None for the error component (also the falsy value of "if err_fc").
None == << >>
\* Exception texts produced by requests.get / raise_for_status / r.json().
ErrKinds == {"ConnectionError: down", "HTTPError: 500"}

Min(a, b) == IF a < b THEN a ELSE b
Max(a, b) == IF a > b THEN a ELSE b

\* ------------------------------------------------------------- payloads
\* The JSON body of a response: whether it has daily.time, and the two
\* parallel arrays daily.time and daily.uv_index_max.
EmptyJson == [daily |-> FALSE, time |-> << >>, uv_index_max |-> << >>]

Daily(t, u) == [daily |-> TRUE, time |-> t, uv_index_max |-> u]

\* The dates lo..hi in ascending order, each with value v.
RunTime(lo, hi) == [i \in 1..Max(0, hi - lo + 1) |-> lo + i - 1]
RunUv(lo, hi, v) == [i \in 1..Max(0, hi - lo + 1) |-> v]
Run(lo, hi, v) == Daily(RunTime(lo, hi), RunUv(lo, hi, v))

SeqsUpTo(S, n) == UNION {[1..k -> S] : k \in 0..n}

\* Arbitrary well-formed payloads over the small calendar, any order, any
\* repetition of dates, plus a payload without "daily" and one whose value
\* array is missing although time is not empty.
ArbitraryJson ==
    {Daily(t, u) : t \in SeqsUpTo(0..MaxDay, MaxLen), u \in SeqsUpTo(Values \cup {NaN}, MaxLen)}

ArbitraryPayloads ==
    {j \in ArbitraryJson : Len(j.time) = Len(j.uv_index_max)}
        \cup {EmptyJson, Daily(<<0>>, << >>)}

\* Days by which the archive provider may lag behind the requested end_date.
ArchiveLags == {0, 1, 2, 5, 10, 92, 93}

\* Archive provider: the requested window minus a lag at its end.
ArchiveProviderPayloads(p_arch) ==
    {Run(p_arch.start_date, p_arch.end_date - lag, v) : lag \in ArchiveLags, v \in Values}
        \cup {Run(p_arch.end_date - 30, p_arch.end_date - 5, v) : v \in Values}
        \cup {EmptyJson, Daily(<<p_arch.end_date>>, << >>)}

\* Forecast provider: past_days of history counted back from today plus
\* forecast_days starting today; and a stand-in that counts the lookback
\* from the window end D instead (dates D - past_days .. D).
ForecastProviderPayloads(p_fc, now, D) ==
    {Run(now - p_fc.past_days, now + p_fc.forecast_days - 1, v) : v \in Values}
        \cup {Run(D - p_fc.past_days, D, v) : v \in Values}
        \cup {EmptyJson, Daily(<<now>>, << >>)}

\* An upstream response: a failure of the call, or a JSON body.
Failures == {[ok |-> FALSE, err |-> e, json |-> EmptyJson] : e \in ErrKinds}
Bodies(P) == {[ok |-> TRUE, err |-> "", json |-> j] : j \in P}

ArchiveResponses(up, p_arch) ==
    Failures \cup Bodies(IF up = "arbitrary" THEN ArbitraryPayloads
                         ELSE ArchiveProviderPayloads(p_arch))

ForecastResponses(up, p_fc, now, D) ==
    Failures \cup Bodies(IF up = "arbitrary" THEN ArbitraryPayloads
                         ELSE ForecastProviderPayloads(p_fc, now, D))

\* ------------------------------------------------------------- helpers
\* _safe_json_get: (r.json(), None) or ({}, "Type: message"); never raises.
safe_json_get(resp) ==
    IF resp.ok THEN [data |-> resp.json, err |-> None]
    ELSE [data |-> EmptyJson, err |-> <<resp.err>>]

\* pd.DataFrame({...}) of two arrays of different length raises ValueError.
FrameRaises(d) == d.daily /\ Len(d.time) # Len(d.uv_index_max)

\* The frame built from the two parallel arrays.
Frame(d) == [i \in 1..Len(d.time) |-> [date |-> d.time[i], uv |-> d.uv_index_max[i]]]

\* .dropna(subset=["uv_index_max"])
IsNumber(r) == r.uv # NaN
DropNa(df) == SelectSeq(df, IsNumber)

InsertAt(t, p, x) ==
    [i \in 1..(Len(t) + 1) |-> IF i <= p THEN t[i] ELSE IF i = p + 1 THEN x ELSE t[i - 1]]

\* Places where x may go into the date-sorted t; rows of equal date may end
\* up in either order (sort_values uses the default, unstable, quicksort).
Inserts(t, x) ==
    {InsertAt(t, p, x) : p \in {q \in 0..Len(t) :
        /\ (q = 0 \/ t[q].date <= x.date)
        /\ (q = Len(t) \/ t[q + 1].date >= x.date)}}

RECURSIVE SortPrefix(_, _)
SortPrefix(df, k) ==
    IF k = 0 THEN {<< >>}
    ELSE UNION {Inserts(t, df[k]) : t \in SortPrefix(df, k - 1)}

StrictlyIncreasing(df) == \A i \in 1..(Len(df) - 1) : df[i].date < df[i + 1].date

\* .sort_values("date").reset_index(drop=True): every outcome the sort allows.
\* A frame that is already strictly increasing has one outcome, itself.
SortValues(df) == IF StrictlyIncreasing(df) THEN {df} ELSE SortPrefix(df, Len(df))

\* _uv_json_to_df for a payload on which it does not raise.
uv_json_to_df(d) ==
    IF ~d.daily THEN {<< >>} ELSE SortValues(DropNa(Frame(d)))

\* df.loc[(date >= lo) & (date <= hi)].reset_index(drop=True)
ClipNoUpper(df, lo, hi) ==
    LET In(r) == r.date >= lo IN SelectSeq(df, In)
ClipStrictLower(df, lo, hi) ==
    LET In(r) == r.date > lo /\ r.date <= hi IN SelectSeq(df, In)
Clip(df, lo, hi) ==
    LET In(r) == r.date >= lo /\ r.date <= hi IN SelectSeq(df, In)

\* df["date"].dt.date.max()
MaxDate(df) ==
    LET i == CHOOSE k \in 1..Len(df) : \A j \in 1..Len(df) : df[j].date <= df[k].date
    IN  df[i].date

\* .drop_duplicates(subset=["date"]): the first row of every date is kept.
DropDuplicates(df) ==
    LET Indexed == [i \in 1..Len(df) |-> [idx |-> i, row |-> df[i]]]
        First(r) == \A j \in 1..(r.idx - 1) : df[j].date # r.row.date
        Kept == SelectSeq(Indexed, First)
    IN  [i \in 1..Len(Kept) |-> Kept[i].row]

\* last_arch_date >= end_eff (line 88)
CoversStrict(last_arch_date, e) == last_arch_date > e
Covers(last_arch_date, e) == last_arch_date >= e

\* needed_from (line 93); the archive frame is not empty here.
NeededFrom(last_arch_date) == last_arch_date + 1

\* (end_eff - from).days + 1 (lines 95 and 126)
DaysExclusive(e, from) == e - from
Days(e, from) == (e - from) + 1

\* max(1, min(92, n)) (lines 96 and 127)
ClampNoCap(n) == Max(1, n)
ClampPastDays(n) == Max(1, Min(PastDaysCap, n))

\* f"Forecast fallback falló: {err_fc}" (line 112)
FallbackErrorLost(e) == None
FallbackError(e) == <<"Forecast fallback fallo: ">> \o e

\* f"Error consultando forecast: {err_fc}" (line 139)
ForecastError(e) == <<"Error consultando forecast: ">> \o e

\* "Sin datos de UVI para el rango/ubicación." (line 143)
NoDataError == <<"Sin datos de UVI para el rango/ubicacion.">>

\* meta_dict: the source label and the N of "(past_days=N)", 0 when absent.
Meta(label, n) == [source |-> label, past_days |-> n]

\* ---------------------------------------------------------------- state
VARIABLES
    upstream,     \* which upstream the run talks to: "arbitrary" or "provider"
    today,        \* date.today()
    args,         \* the start and end the caller passed
    start, end,   \* the parameters, reassigned by the swap
    pc,           \* position in fetch_uv_daily_smart
    end_eff,      \* min(end, yesterday)
    df_arch, err_arch,
    df_fc, err_fc,
    needed_from, past_days,
    arch_requests, fc_requests,   \* parameters of the requests sent
    ret,          \* the returned (df, error, meta)
    exc           \* the exception that left the function, "" when none

vars == <<upstream, today, args, start, end, pc, end_eff, df_arch, err_arch,
          df_fc, err_fc, needed_from, past_days, arch_requests, fc_requests, ret, exc>>

\* pd.DataFrame's complaint about the two arrays (raised inside _uv_json_to_df).
ValueError == "ValueError: All arrays must be of the same length"

NoRet == [df |-> << >>, error |-> None, meta |-> Meta("", 0)]

Locals0 ==
    /\ pc = "call"
    /\ end_eff = 0
    /\ df_arch = << >> /\ err_arch = None
    /\ df_fc = << >> /\ err_fc = None
    /\ needed_from = 0 /\ past_days = 0
    /\ arch_requests = << >> /\ fc_requests = << >>
    /\ ret = NoRet
    /\ exc = ""

\* Window ends and lengths of the runs against the provider upstream.
WideEndBack == {0, 1, 6}
WideSpans == {0, 6, 30, 91, 92, 120}

Init ==
    /\ \/ /\ upstream = "arbitrary"
          /\ today \in 0..MaxDay
          /\ start \in 0..MaxDay
          /\ end \in 0..MaxDay
       \/ /\ upstream = "provider"
          /\ today = WideToday
          /\ end \in {WideToday - k : k \in WideEndBack}
          /\ start \in {end - n : n \in WideSpans}
    /\ args = [start |-> start, end |-> end]
    /\ Locals0

\* ---------------------------------------------------------------- steps
\* Lines 66-81: sanitise the dates, query the archive, normalise the answer.
FetchArchive ==
    /\ pc = "call"
    /\ LET s == IF start > end THEN end ELSE start
           e == IF start > end THEN start ELSE end
           eff == Min(e, today - 1)
           p_arch == [start_date |-> s, end_date |-> eff]
       IN  /\ start' = s
           /\ end' = e
           /\ end_eff' = eff
           /\ arch_requests' = Append(arch_requests, p_arch)
           /\ \E resp \in ArchiveResponses(upstream, p_arch) :
                LET got == safe_json_get(resp)
                IN  /\ err_arch' = got.err
                    /\ IF FrameRaises(got.data)
                       THEN /\ pc' = "raised"
                            /\ exc' = ValueError
                            /\ df_arch' = << >>
                       ELSE /\ pc' = "archive"
                            /\ exc' = exc
                            /\ \E df \in uv_json_to_df(got.data) : df_arch' = df
    /\ UNCHANGED <<upstream, today, args, df_fc, err_fc, needed_from, past_days, fc_requests, ret>>

\* Lines 84-90: the archive reaches end_eff.
ReturnArchive ==
    /\ pc = "archive"
    /\ df_arch # << >>
    /\ Covers(MaxDate(df_arch), end_eff)
    /\ ret' = [df |-> Clip(df_arch, start, end_eff), error |-> None,
               meta |-> Meta("archive", 0)]
    /\ pc' = "done"
    /\ UNCHANGED <<upstream, today, args, start, end, end_eff, df_arch, err_arch,
                   df_fc, err_fc, needed_from, past_days, arch_requests, fc_requests, exc>>

\* Lines 92-107: the archive stops short; query the forecast for the gap.
FetchForecastGap ==
    /\ pc = "archive"
    /\ df_arch # << >>
    /\ ~Covers(MaxDate(df_arch), end_eff)
    /\ LET from == NeededFrom(MaxDate(df_arch))
           n == ClampPastDays(Days(end_eff, from))
           p_fc == [past_days |-> n, forecast_days |-> ForecastDays]
       IN  /\ needed_from' = from
           /\ past_days' = n
           /\ fc_requests' = Append(fc_requests, p_fc)
           /\ \E resp \in ForecastResponses(upstream, p_fc, today, end_eff) :
                LET got == safe_json_get(resp)
                IN  /\ err_fc' = got.err
                    /\ IF FrameRaises(got.data)
                       THEN /\ pc' = "raised"
                            /\ exc' = ValueError
                            /\ df_fc' = << >>
                       ELSE /\ pc' = "gap"
                            /\ exc' = exc
                            /\ \E df \in uv_json_to_df(got.data) : df_fc' = df
    /\ UNCHANGED <<upstream, today, args, start, end, end_eff, df_arch, err_arch,
                   arch_requests, ret>>

\* Lines 109-112: the forecast call failed; return what the archive had.
ReturnArchiveForecastFailed ==
    /\ pc = "gap"
    /\ err_fc # None
    /\ ret' = [df |-> Clip(df_arch, start, end_eff), error |-> FallbackError(err_fc),
               meta |-> Meta("archive", 0)]
    /\ pc' = "done"
    /\ UNCHANGED <<upstream, today, args, start, end, end_eff, df_arch, err_arch,
                   df_fc, err_fc, needed_from, past_days, arch_requests, fc_requests, exc>>

\* Lines 114-116: the forecast frame is empty.
ReturnArchiveForecastEmpty ==
    /\ pc = "gap"
    /\ err_fc = None
    /\ df_fc = << >>
    /\ ret' = [df |-> Clip(df_arch, start, end_eff), error |-> None,
               meta |-> Meta("archive", 0)]
    /\ pc' = "done"
    /\ UNCHANGED <<upstream, today, args, start, end, end_eff, df_arch, err_arch,
                   df_fc, err_fc, needed_from, past_days, arch_requests, fc_requests, exc>>

\* Lines 118-123: concat, drop_duplicates, sort, clip.
ReturnMerge ==
    /\ pc = "gap"
    /\ err_fc = None
    /\ df_fc # << >>
    /\ \E df_merge \in SortValues(DropDuplicates(df_arch \o Clip(df_fc, needed_from, end_eff))) :
          ret' = [df |-> Clip(df_merge, start, end_eff), error |-> None,
                  meta |-> Meta("archive+forecast", past_days)]
    /\ pc' = "done"
    /\ UNCHANGED <<upstream, today, args, start, end, end_eff, df_arch, err_arch,
                   df_fc, err_fc, needed_from, past_days, arch_requests, fc_requests, exc>>

\* Lines 125-141: the archive frame is empty; query the forecast alone.  The
\* answer is normalised only after the error check of line 138.
FetchForecastOnly ==
    /\ pc = "archive"
    /\ df_arch = << >>
    /\ LET n == ClampPastDays(Days(end_eff, start))
           p_fc == [past_days |-> n, forecast_days |-> ForecastDays]
       IN  /\ past_days' = n
           /\ fc_requests' = Append(fc_requests, p_fc)
           /\ \E resp \in ForecastResponses(upstream, p_fc, today, end_eff) :
                LET got == safe_json_get(resp)
                IN  /\ err_fc' = got.err
                    /\ IF got.err = None /\ FrameRaises(got.data)
                       THEN /\ pc' = "raised"
                            /\ exc' = ValueError
                            /\ df_fc' = << >>
                       ELSE /\ pc' = "only"
                            /\ exc' = exc
                            /\ \E df \in uv_json_to_df(got.data) : df_fc' = df
    /\ UNCHANGED <<upstream, today, args, start, end, end_eff, df_arch, err_arch,
                   needed_from, arch_requests, ret>>

\* Lines 138-139.
ReturnNone ==
    /\ pc = "only"
    /\ err_fc # None
    /\ ret' = [df |-> << >>, error |-> ForecastError(err_fc), meta |-> Meta("none", 0)]
    /\ pc' = "done"
    /\ UNCHANGED <<upstream, today, args, start, end, end_eff, df_arch, err_arch,
                   df_fc, err_fc, needed_from, past_days, arch_requests, fc_requests, exc>>

\* Lines 142-143.
ReturnEmpty ==
    /\ pc = "only"
    /\ err_fc = None
    /\ df_fc = << >>
    /\ ret' = [df |-> << >>, error |-> NoDataError, meta |-> Meta("empty", 0)]
    /\ pc' = "done"
    /\ UNCHANGED <<upstream, today, args, start, end, end_eff, df_arch, err_arch,
                   df_fc, err_fc, needed_from, past_days, arch_requests, fc_requests, exc>>

\* Lines 145-146.
ReturnForecast ==
    /\ pc = "only"
    /\ err_fc = None
    /\ df_fc # << >>
    /\ ret' = [df |-> Clip(df_fc, start, end_eff), error |-> None,
               meta |-> Meta("forecast", past_days)]
    /\ pc' = "done"
    /\ UNCHANGED <<upstream, today, args, start, end, end_eff, df_arch, err_arch,
                   df_fc, err_fc, needed_from, past_days, arch_requests, fc_requests, exc>>

Next ==
    \/ FetchArchive
    \/ ReturnArchive
    \/ FetchForecastGap
    \/ ReturnArchiveForecastFailed
    \/ ReturnArchiveForecastEmpty
    \/ ReturnMerge
    \/ FetchForecastOnly
    \/ ReturnNone
    \/ ReturnEmpty
    \/ ReturnForecast

Spec == Init /\ [][Next]_vars

TypeOK ==
    /\ pc \in {"call", "archive", "gap", "only", "done", "raised"}
    /\ Len(arch_requests) <= 1
    /\ Len(fc_requests) <= 1

\* ------------------------------------------------------------ properties
\* The window the caller asked for: start and end in order, end no later
\* than yesterday.
WinLo == Min(args.start, args.end)
WinHi == Min(Max(args.start, args.end), today - 1)

\* The rows of df dated within lo..hi, in df's order.
Within(df, lo, hi) ==
    LET Dated(r) == lo <= r.date /\ r.date <= hi IN SelectSeq(df, Dated)

DatesOf(df) == {df[i].date : i \in DOMAIN df}

\* The value of the first row of df dated d.
ValueAt(df, d) ==
    LET i == CHOOSE k \in DOMAIN df :
                 df[k].date = d /\ \A j \in 1..(k - 1) : df[j].date # d
    IN  df[i].uv

\* The error string e embeds the failure text err.
Carries(e, err) == \E i \in DOMAIN e : \E j \in DOMAIN err : e[i] = err[j]

Returned == pc = "done"

\* C1: every returned observation is dated within [start, end_clamped],
\* on every return path.
C1_DatesInWindow ==
    Returned => \A i \in DOMAIN ret.df : WinLo <= ret.df[i].date /\ ret.df[i].date <= WinHi

\* C1 witness: a merge was returned although the archive had rows before
\* start and the forecast had rows after end_clamped.
C1_Witness ==
    /\ Returned
    /\ ret.meta.source = "archive+forecast"
    /\ ret.df # << >>
    /\ \E i \in DOMAIN df_arch : df_arch[i].date < WinLo
    /\ \E i \in DOMAIN df_fc : df_fc[i].date > WinHi

\* C2: the returned series is strictly increasing by date (hence without
\* duplicate dates) on every return path, whatever the upstream payload.
C2_StrictlyIncreasing ==
    Returned => \A i \in 1..(Len(ret.df) - 1) : ret.df[i].date < ret.df[i + 1].date

\* C3: when the archive frame is not empty and its latest date is at or
\* after end_clamped, the forecast endpoint is never queried and the result
\* is the clipped archive frame with error None and provenance "archive".
C3_ArchiveCoversNoForecast ==
    (df_arch # << >> /\ (\E i \in DOMAIN df_arch : df_arch[i].date >= WinHi))
        => /\ fc_requests = << >>
           /\ pc \in {"archive", "done"}
           /\ Returned => ret = [df |-> Within(df_arch, WinLo, WinHi), error |-> None,
                                 meta |-> Meta("archive", 0)]

\* C3 witness: such a run returned, and the clip removed rows.
C3_Witness ==
    /\ Returned
    /\ \E i \in DOMAIN df_arch : df_arch[i].date > WinHi
    /\ ret.df # << >>
    /\ Len(ret.df) < Len(df_arch)

\* The length of the stretch the forecast is asked to cover: the days after
\* the archive's last date, or the whole window when the archive is empty.
Stretch ==
    IF df_arch = << >> THEN (WinHi - WinLo) + 1
    ELSE WinHi - MaxDate(df_arch)

\* C4: every forecast request carries 1 <= past_days <= 92: exactly 92 when
\* the stretch is longer than 92 days, exactly 1 when it is zero or
\* negative; and the only exception leaving the function is the frame
\* constructor's, never one caused by the size of the gap.
C4_PastDaysWithinCap ==
    /\ \A i \in DOMAIN fc_requests :
          /\ fc_requests[i].past_days \in 1..92
          /\ (Stretch > 92 => fc_requests[i].past_days = 92)
          /\ (Stretch < 1 => fc_requests[i].past_days = 1)
    /\ (pc = "raised" => exc = ValueError)
    /\ (pc # "raised" => exc = "")

\* C4 witness: a gap of more than 92 days after a non-empty archive went out
\* as past_days = 92 and the run returned.
C4_Witness ==
    /\ Returned
    /\ df_arch # << >>
    /\ Stretch > 92
    /\ Len(fc_requests) = 1
    /\ fc_requests[1].past_days = 92

\* The archive frame is not empty and ends exactly 10 days before end_clamped.
TenShort == df_arch # << >> /\ MaxDate(df_arch) = WinHi - 10 /\ fc_requests # << >>

\* C5 (as claimed): archive last date end_clamped - 10 => past_days = 11.
C5_Original ==
    TenShort => fc_requests[1].past_days = 11

\* C5 (amended): archive last date end_clamped - 10 => past_days = 10, the
\* number of days from last + 1 through end_clamped.
C5_PastDaysTen ==
    TenShort => Len(fc_requests) = 1 /\ fc_requests[1].past_days = 10

\* C5 witness: a run whose archive ended 10 days short has returned.
C5_Witness == Returned /\ TenShort

\* C6: a failed forecast query after a non-empty archive that ends before
\* end_clamped returns exactly the archive rows dated in the window, an
\* error carrying the forecast failure, and provenance "archive".
C6_ForecastFailureKeepsArchive ==
    (Returned /\ df_arch # << >> /\ MaxDate(df_arch) < WinHi /\ err_fc # None)
        => /\ ret.df = Within(df_arch, WinLo, WinHi)
           /\ ret.error # None
           /\ Carries(ret.error, err_fc)
           /\ ret.meta = Meta("archive", 0)

\* C6 witness: the forecast failed and archive rows were returned.
C6_Witness ==
    /\ Returned
    /\ df_arch # << >>
    /\ MaxDate(df_arch) < WinHi
    /\ err_fc # None
    /\ ret.df # << >>

\* The splice scenario: archive D-30..D-5, forecast asked for past_days = 5
\* answers D-5..D with another value at D-5, D the end of the window.
SpliceScenario ==
    /\ Returned
    /\ WinLo <= WinHi - 30
    /\ Len(df_arch) = 26 /\ DatesOf(df_arch) = (WinHi - 30)..(WinHi - 5)
    /\ Len(fc_requests) = 1 /\ fc_requests[1].past_days = 5
    /\ err_fc = None
    /\ Len(df_fc) = 6 /\ DatesOf(df_fc) = (WinHi - 5)..WinHi
    /\ ValueAt(df_fc, WinHi - 5) # ValueAt(df_arch, WinHi - 5)

\* C7 (as claimed): the merge has 31 rows and carries the forecast's value
\* at the shared date D-5.
C7_Original ==
    SpliceScenario =>
        /\ Len(ret.df) = 31
        /\ ValueAt(ret.df, WinHi - 5) = ValueAt(df_fc, WinHi - 5)

\* C7 (amended): the merge has 31 rows, one per date D-30..D, and carries
\* the archive's value at the shared date D-5.
C7_ArchiveWinsAtBoundary ==
    SpliceScenario =>
        /\ Len(ret.df) = 31
        /\ DatesOf(ret.df) = (WinHi - 30)..WinHi
        /\ ValueAt(ret.df, WinHi - 5) = ValueAt(df_arch, WinHi - 5)
        /\ ret.meta = Meta("archive+forecast", 5)

\* C7 witness: the splice scenario happened.
C7_Witness == SpliceScenario /\ ret.df # << >>

\* C8: when the archive yields no data and the forecast answers with rows
\* none of which is dated in the window, the result is an empty series with
\* a diagnostic and provenance "empty"; an empty series never comes with
\* error None.
C8_NoSilentEmpty ==
    (/\ Returned
     /\ WinLo <= WinHi
     /\ df_arch = << >>
     /\ Len(fc_requests) = 1
     /\ err_fc = None
     /\ Within(df_fc, WinLo, WinHi) = << >>)
        => /\ ret.df = << >>
           /\ ret.error # None
           /\ ret.meta = Meta("empty", 0)

\* C9: every failed call of the invocation shows in the returned error, and
\* a failed call never leaves the function as an exception.
C9_EveryFailureReported ==
    /\ Returned =>
          /\ (err_arch # None => ret.error # None /\ Carries(ret.error, err_arch))
          /\ (err_fc # None => ret.error # None /\ Carries(ret.error, err_fc))
    /\ (pc = "raised" /\ fc_requests = << >> => err_arch = None)
    /\ (pc = "raised" /\ fc_requests # << >> => err_fc = None)

\* C10: on the gap path with a gap of at most 92 days (archive rows all
\* within a non-empty window), a forecast answer with one row for each date
\* today - past_days .. today makes the result contain every date from the
\* archive's last date + 1 through end_clamped, with provenance
\* archive+forecast(past_days=N).
C10_LookbackCoversGap ==
    (/\ Returned
     /\ WinLo <= WinHi
     /\ df_arch # << >>
     /\ \A i \in DOMAIN df_arch : WinLo <= df_arch[i].date /\ df_arch[i].date < WinHi
     /\ WinHi - MaxDate(df_arch) <= 92
     /\ Len(fc_requests) = 1
     /\ err_fc = None
     /\ Len(df_fc) = fc_requests[1].past_days + 1
     /\ DatesOf(df_fc) = (today - fc_requests[1].past_days)..today)
        => /\ \A d \in (MaxDate(df_arch) + 1)..WinHi : d \in DatesOf(ret.df)
           /\ ret.meta = Meta("archive+forecast", fc_requests[1].past_days)

====
